---- MODULE Spec2Model ----
(***************************************************************************)
(* A model of src/src/main/cpp/jvmti_agent.cpp: the EventQueue ring        *)
(* buffer, the AllocationTracker hash table with its five counters, the    *)
(* JVMTI callbacks that feed them, the event processor thread and the      *)
(* agent commands.                                                         *)
(*                                                                         *)
(* The specifications share the variables:                                 *)
(*   SpecQueue      one thread calling EventQueue::push / pop              *)
(*   SpecTracker    one thread calling AllocationTracker::track / untrack  *)
(*   Spec           the agent: callbacks (each one atomic step), the event *)
(*                  processor thread, commands, Agent_OnUnload             *)
(*   SpecSampling   the sampling check under every option, command and     *)
(*                  setSamplingInterval call                               *)
(*   SpecMP         several producer threads and the consumer, interleaved *)
(*                  at the individual loads and stores of push and pop     *)
(*   SpecSP         the same with a single producer thread                 *)
(*   SpecTrackerMT  several threads in track / untrack, one step per       *)
(*                  statement, with lock-free reads of current_usage       *)
(*   SpecOrder      the allocation and free callbacks in two steps each:   *)
(*                  the tracker call, then the push                        *)
(*   SpecSPFair     SpecSP with the event processor scheduled fairly       *)
(*   SpecStop       the agent being stopped, with the event processor      *)
(*                  scheduled fairly                                       *)
(***************************************************************************)
EXTENDS Integers, Sequences, FiniteSets, TLC

(***************************************************************************)
(* Program constants, scaled down                                          *)
(***************************************************************************)
\* #define EVENT_QUEUE_SIZE 65536: the number of slots of the ring.
EVENT_QUEUE_SIZE == 3
\* #define ALLOCATION_HASH_SIZE 1000003: the number of buckets.
ALLOCATION_HASH_SIZE == 2
\* enum EventType
EVENT_ALLOC == 1
EVENT_FREE == 2
EVENT_GC_START == 3
EVENT_GC_FINISH == 4
\* #define SAMPLING_INTERVAL 10, the initial value of g_sampling_interval
SAMPLING_INTERVAL == 10
\* std::atomic<uint64_t> and size_t arithmetic is modulo 2^64, and hash_tag
\* folds the upper 32 bits of a 64-bit tag onto the lower 32. TLC's integers
\* have 32 bits, so the model's word has 30 bits and its half word 15:
\* U64 stands for 2^64 and U32 for 2^32.
U64 == 1073741824
U32 == 32768

(***************************************************************************)
(* Bounds of the model                                                     *)
(***************************************************************************)
\* object tags (addresses) are 1..MaxTag
MaxTag == 3
\* calls recorded in hist by SpecQueue
MaxQueueOps == 7
\* calls recorded in hist by SpecTracker
MaxTrackerOps == 4
\* the objects of Spec have the addresses (tags) 1..MaxObj
MaxObj == 2
\* notifications (JVMTI callbacks) delivered in Spec
MaxNotif == 3
\* allocation notifications delivered in SpecSampling
MaxGate == 5
\* the largest sampling interval a start-up option or a command sets
MaxInterval == 3
\* callbacks started by all producer threads together in SpecMP
MaxPush == 3
\* callbacks started by the one producer thread of SpecSP
MaxPushSP == 4
\* track and untrack calls started, and counter reads made, in SpecTrackerMT
MaxCalls == 3
MaxReads == 2
\* callbacks delivered in SpecStop
MaxStopNotif == 2
\* callbacks started in SpecOrder
MaxOrderCalls == 3
\* producer threads (application threads in a callback) in SpecMP
NumProducers == 2

Tags == 1..MaxTag
Sizes == {8, 16}
Objects == 1..MaxObj
\* the size the VM reports for the object at this address
ObjectSize(tag) == 8 * tag
NULL == 0

(***************************************************************************)
(* Helpers                                                                 *)
(***************************************************************************)
Min(a, b) == IF a < b THEN a ELSE b

RECURSIVE SumSeq(_)
SumSeq(s) == IF s = <<>> THEN 0 ELSE Head(s) + SumSeq(Tail(s))

RECURSIVE Flatten(_)
Flatten(ss) == IF ss = <<>> THEN <<>> ELSE Head(ss) \o Flatten(Tail(ss))

\* bitwise exclusive or of two naturals
RECURSIVE Xor(_, _)
Xor(a, b) ==
    IF a = 0 THEN b
    ELSE IF b = 0 THEN a
    ELSE (((a % 2) + (b % 2)) % 2) + (2 * Xor(a \div 2, b \div 2))

(***************************************************************************)
(* struct AllocationInfo, struct AllocationEvent                           *)
(* Pointers and JNI references are resource ids: NULL or an index of heap. *)
(* timestamp, frame_count, thread_id and hash are carried along by the     *)
(* code and decide nothing; they are left out.                             *)
(***************************************************************************)
AllocationInfo(size, frames) == [size |-> size, frames |-> frames]

\* AllocationInfo(): size(0), frames(nullptr)
DefaultInfo == AllocationInfo(0, NULL)

AllocationEvent(type, tag, size, klass, thread, frames) ==
    [type |-> type, tag |-> tag, size |-> size,
     klass |-> klass, thread |-> thread, frames |-> frames]

\* AllocationEvent(): type(EVENT_ALLOC), tag(0), size(0), klass, thread, frames(nullptr)
DefaultEvent == AllocationEvent(EVENT_ALLOC, 0, 0, NULL, NULL, NULL)

VARIABLES
    \* EventQueue g_event_queue
    buffer, head, tail, count,
    \* AllocationTracker g_tracker
    buckets, total_allocated, total_freed, current_usage, alloc_count, free_count,
    \* globals
    g_agent_active, g_sampling_enabled, g_sampling_interval, g_alloc_counter,
    g_jni_env,
    \* Agent_OnUnload: not called ("none"), waiting in join ("join"), returned
    upc,
    \* malloc'ed buffers and JNI global references: heap[r] is the number of
    \* times resource r has been released (free / DeleteGlobalRef), capped at 2
    heap,
    \* event_processor_loop: its position, its local event, pop's current_head
    cpc, cev, chead,
    \* producer threads of SpecMP: position, event being pushed, push's current_tail
    \* (in SpecTrackerMT: position in track / untrack, the HashEntry in hand)
    ppc, pev, ptail,
    \* history: the calls made so far with their results (SpecQueue,
    \* SpecTracker), the pushes and pops (SpecMP, SpecSP), the records removed
    \* from the table (Spec)
    hist,
    \* history: the call made last (callback or control call), and the
    \* bookkeeping of Spec
    lastOp, nNotif, gate, dropped

queueVars == <<buffer, head, tail, count>>
counterVars == <<total_allocated, total_freed, current_usage, alloc_count, free_count>>
trackerVars == <<buckets, total_allocated, total_freed, current_usage, alloc_count, free_count>>
globalVars == <<g_agent_active, g_sampling_enabled, g_sampling_interval, g_alloc_counter,
               g_jni_env, upc>>
consumerVars == <<cpc, cev, chead>>
producerVars == <<ppc, pev, ptail>>
histVars == <<hist, lastOp, nNotif, gate, dropped>>
vars == <<queueVars, trackerVars, globalVars, heap, consumerVars, producerVars, histVars>>

(***************************************************************************)
(* EventQueue                                                              *)
(***************************************************************************)
Slots == 0..(EVENT_QUEUE_SIZE - 1)

\* size_t next_tail = (current_tail + 1) % EVENT_QUEUE_SIZE;
next_tail(current_tail) == (current_tail + 1) % EVENT_QUEUE_SIZE

\* if (next_tail == head.load(acquire)) return false;
QueueFull_never(current_tail, h) == FALSE
QueueFull(current_tail, h) == next_tail(current_tail) = h

\* if (current_head == tail.load(acquire)) return false;
QueueEmpty_always(current_head, t) == TRUE
QueueEmpty(current_head, t) == current_head = t

\* bool push(const AllocationEvent& event), run without interruption:
\* the queue it leaves and the value it returns.
push_storesWhenFull(q, event) ==
    IF QueueFull(q.tail, q.head)
    THEN [ok |-> FALSE, buffer |-> [q.buffer EXCEPT ![q.tail] = event], head |-> q.head,
          tail |-> q.tail, count |-> q.count]
    ELSE [ok |-> TRUE,
          buffer |-> [q.buffer EXCEPT ![q.tail] = event],
          head |-> q.head,
          tail |-> next_tail(q.tail),
          count |-> (q.count + 1) % U64]
push(q, event) ==
    IF QueueFull(q.tail, q.head)
    THEN [ok |-> FALSE, buffer |-> q.buffer, head |-> q.head, tail |-> q.tail,
          count |-> q.count]
    ELSE [ok |-> TRUE,
          buffer |-> [q.buffer EXCEPT ![q.tail] = event],
          head |-> q.head,
          tail |-> next_tail(q.tail),
          count |-> (q.count + 1) % U64]

\* bool pop(AllocationEvent& event), run without interruption. On failure the
\* caller's event is left as it was.
pop(q, event) ==
    IF QueueEmpty(q.head, q.tail)
    THEN [ok |-> FALSE, event |-> event, buffer |-> q.buffer, head |-> q.head,
          tail |-> q.tail, count |-> q.count]
    ELSE [ok |-> TRUE,
          event |-> q.buffer[q.head],
          buffer |-> q.buffer,
          head |-> (q.head + 1) % EVENT_QUEUE_SIZE,
          tail |-> q.tail,
          count |-> (q.count + U64 - 1) % U64]

\* size_t size() const
size == count

\* bool empty() const
empty == head = tail

Queue == [buffer |-> buffer, head |-> head, tail |-> tail, count |-> count]

SetQueue(r) ==
    /\ buffer' = r.buffer
    /\ head' = r.head
    /\ tail' = r.tail
    /\ count' = r.count

\* the slots between head and tail, oldest first: what pop will return
RECURSIVE Pending(_, _, _)
Pending(b, h, t) ==
    IF h = t THEN <<>> ELSE <<b[h]>> \o Pending(b, (h + 1) % EVENT_QUEUE_SIZE, t)

(***************************************************************************)
(* AllocationTracker                                                       *)
(***************************************************************************)
Buckets == 0..(ALLOCATION_HASH_SIZE - 1)

\* return (uint32_t)(tag ^ (tag >> 32)) % ALLOCATION_HASH_SIZE;  (tag >= 0)
hash_tag(tag) == (Xor(tag, tag \div U32) % U32) % ALLOCATION_HASH_SIZE

\* HashEntry: tag, info; next is the rest of the chain
HashEntry(tag, info) == [tag |-> tag, info |-> info]

\* entry->next = buckets[h]; buckets[h] = entry;
Link(chain, entry) == <<entry>> \o chain

\* the position in the chain of the first entry with this tag, 0 if none
\* (the while (curr) loop of untrack and find)
RECURSIVE FirstMatch(_, _, _)
FirstMatch(chain, tag, i) ==
    IF i > Len(chain) THEN 0
    ELSE IF chain[i].tag = tag THEN i
    ELSE FirstMatch(chain, tag, i + 1)

\* prev->next = curr->next / buckets[h] = curr->next
Unlink_none(chain, i) == chain
Unlink(chain, i) == SubSeq(chain, 1, i - 1) \o SubSeq(chain, i + 1, Len(chain))

\* the fetch_add / fetch_sub of a jlong size on a uint64_t counter
FetchAdd(c, n) == (c + n) % U64
UsageAfterFree_kept(c, n) == c
UsageAfterFree(c, n) == (c + U64 - (n % U64)) % U64

Tracker ==
    [buckets |-> buckets, total_allocated |-> total_allocated,
     total_freed |-> total_freed, current_usage |-> current_usage,
     alloc_count |-> alloc_count, free_count |-> free_count]

SetTracker(r) ==
    /\ buckets' = r.buckets
    /\ total_allocated' = r.total_allocated
    /\ total_freed' = r.total_freed
    /\ current_usage' = r.current_usage
    /\ alloc_count' = r.alloc_count
    /\ free_count' = r.free_count

\* void track(jlong tag, const AllocationInfo& info)
track(t, tag, info) ==
    LET h == hash_tag(tag) IN
    [buckets |-> [t.buckets EXCEPT ![h] = Link(@, HashEntry(tag, info))],
     total_allocated |-> FetchAdd(t.total_allocated, info.size),
     total_freed |-> t.total_freed,
     current_usage |-> FetchAdd(t.current_usage, info.size),
     alloc_count |-> FetchAdd(t.alloc_count, 1),
     free_count |-> t.free_count]

\* bool untrack(jlong tag, AllocationInfo& info): the tracker it leaves, the
\* value it returns and the caller's info (untouched when nothing is found).
untrack_countsMiss(t, tag, info) ==
    LET h == hash_tag(tag)
        i == FirstMatch(t.buckets[h], tag, 1)
    IN  IF i = 0
        THEN [ok |-> FALSE, info |-> info,
              t |-> [t EXCEPT !.free_count = FetchAdd(@, 1)]]
        ELSE LET found == t.buckets[h][i].info IN
             [ok |-> TRUE, info |-> found,
              t |-> [t EXCEPT !.buckets[h] = Unlink(@, i),
                              !.total_freed = FetchAdd(@, found.size),
                              !.current_usage = UsageAfterFree(@, found.size),
                              !.free_count = FetchAdd(@, 1)]]
untrack(t, tag, info) ==
    LET h == hash_tag(tag)
        i == FirstMatch(t.buckets[h], tag, 1)
    IN  IF i = 0
        THEN [ok |-> FALSE, info |-> info, t |-> t]
        ELSE LET found == t.buckets[h][i].info IN
             [ok |-> TRUE, info |-> found,
              t |-> [t EXCEPT !.buckets[h] = Unlink(@, i),
                              !.total_freed = FetchAdd(@, found.size),
                              !.current_usage = UsageAfterFree(@, found.size),
                              !.free_count = FetchAdd(@, 1)]]

\* AllocationInfo* find(jlong tag): found, and the info pointed to
find(t, tag) ==
    LET h == hash_tag(tag)
        i == FirstMatch(t.buckets[h], tag, 1)
    IN  IF i = 0
        THEN [found |-> FALSE, info |-> DefaultInfo]
        ELSE [found |-> TRUE, info |-> t.buckets[h][i].info]

\* void clear(): every entry deleted, every bucket set to nullptr; the
\* counters are left as they are
clear(t) == [t EXCEPT !.buckets = [b \in Buckets |-> <<>>]]

\* void get_snapshot(vector<pair<jlong, AllocationInfo>>&): bucket by bucket,
\* each chain from its head
get_snapshot(t) == Flatten([i \in 1..ALLOCATION_HASH_SIZE |-> t.buckets[i - 1]])

\* AllocationTracker(): memset(buckets, 0, ...), counters {0}
InitTracker ==
    /\ buckets = [b \in Buckets |-> <<>>]
    /\ total_allocated = 0
    /\ total_freed = 0
    /\ current_usage = 0
    /\ alloc_count = 0
    /\ free_count = 0

\* EventQueue: buffer of default events, head{0}, tail{0}, count{0}
InitQueue ==
    /\ buffer = [s \in Slots |-> DefaultEvent]
    /\ head = 0
    /\ tail = 0
    /\ count = 0

\* static std::atomic globals, before any option is parsed
InitHistory ==
    /\ hist = <<>>
    /\ lastOp = "init"
    /\ nNotif = 0
    /\ gate = <<>>
    /\ dropped = {}

InitThreads ==
    /\ cpc = "idle"
    /\ cev = DefaultEvent
    /\ chead = 0
    /\ ppc = <<>>
    /\ pev = <<>>
    /\ ptail = <<>>

InitGlobals ==
    /\ g_agent_active = TRUE
    /\ g_sampling_enabled = TRUE
    /\ g_sampling_interval = SAMPLING_INTERVAL
    /\ g_alloc_counter = 0
    /\ g_jni_env = TRUE
    /\ upc = "none"
    /\ heap = <<>>

(***************************************************************************)
(* SpecQueue: one thread calls push and pop on an EventQueue that starts   *)
(* empty. hist records each call, whether the queue was empty() before it  *)
(* and what it returned.                                                   *)
(***************************************************************************)
\* the events pushed: one of each kind the callbacks build
QueueEvents ==
    {AllocationEvent(EVENT_ALLOC, 1, 8, NULL, NULL, NULL),
     AllocationEvent(EVENT_GC_START, 0, 0, NULL, NULL, NULL)}

InitQ ==
    /\ InitQueue /\ InitTracker /\ InitGlobals /\ InitThreads /\ InitHistory

QPush(event) ==
    /\ Len(hist) < MaxQueueOps
    /\ LET r == push(Queue, event) IN
       /\ SetQueue(r)
       /\ hist' = Append(hist, [op |-> "push", ret |-> r.ok, wasEmpty |-> empty,
                                event |-> event])
    /\ lastOp' = "push"
    /\ UNCHANGED <<trackerVars, globalVars, heap, consumerVars, producerVars,
                   nNotif, gate, dropped>>

QPop ==
    /\ Len(hist) < MaxQueueOps
    /\ LET r == pop(Queue, DefaultEvent) IN
       /\ SetQueue(r)
       /\ hist' = Append(hist, [op |-> "pop", ret |-> r.ok, wasEmpty |-> empty,
                                event |-> r.event])
    /\ lastOp' = "pop"
    /\ UNCHANGED <<trackerVars, globalVars, heap, consumerVars, producerVars,
                   nNotif, gate, dropped>>

NextQ ==
    \/ \E event \in QueueEvents : QPush(event)
    \/ QPop

SpecQueue == InitQ /\ [][NextQ]_vars

(***************************************************************************)
(* Claims about SpecQueue                                                  *)
(***************************************************************************)
\* the number of events the ring holds: one slot always stays free
Capacity == EVENT_QUEUE_SIZE - 1

\* calls i..j of hist are all pushes, and the queue was empty before call i
PushRun(i, j) ==
    /\ 1 <= i /\ i <= j /\ j <= Len(hist)
    /\ hist[i].wasEmpty
    /\ \A k \in i..j : hist[k].op = "push"

\* C1 as stated, with C the number of slots (EVENT_QUEUE_SIZE): from an empty
\* queue, C consecutive pushes with no pop in between all return true.
C1_AsStated ==
    \A i \in 1..Len(hist) : \A j \in i..Len(hist) :
        (PushRun(i, j) /\ j - i + 1 <= EVENT_QUEUE_SIZE) => hist[j].ret

\* C1 (amended): from an empty queue of EVENT_QUEUE_SIZE slots, the first
\* EVENT_QUEUE_SIZE - 1 consecutive pushes return true, the next push returns
\* false, and after exactly one pop the next push returns true.
C1_Capacity ==
    \A i \in 1..Len(hist) : \A j \in i..Len(hist) :
        PushRun(i, j) =>
            /\ (j - i + 1 <= Capacity) => hist[j].ret
            /\ (j - i + 1 = Capacity + 1) => ~hist[j].ret
            /\ (j - i + 1 = Capacity + 1 /\ j + 2 <= Len(hist)
                /\ hist[j + 1].op = "pop" /\ hist[j + 2].op = "push")
               => (hist[j + 1].ret /\ hist[j + 2].ret)

\* C1 witness: a queue that was emptied away from slot 0, then filled, then
\* refused a push, then popped once and accepted the next push.
C1_Witness ==
    \E i \in 2..Len(hist) :
        /\ PushRun(i, i + Capacity)
        /\ i + Capacity + 2 <= Len(hist)
        /\ hist[i + Capacity + 1].op = "pop"
        /\ hist[i + Capacity + 2].op = "push"
        /\ hist[i + Capacity + 2].ret
        /\ ~hist[i + Capacity].ret

\* C24: a push that returns false (queue full) and a pop that returns false
\* (head equals tail) each leave head, tail, count and every slot of the
\* buffer unchanged.
C24_FailureChangesNothing ==
    [][(Len(hist') = Len(hist) + 1 /\ ~hist'[Len(hist')].ret)
       => UNCHANGED queueVars]_vars

\* C24 witness: a pop failed on the empty queue, and later a push failed on
\* the full queue after the ring had been used once around.
C24_Witness ==
    /\ Len(hist) >= 2
    /\ hist[1].op = "pop" /\ ~hist[1].ret
    /\ hist[Len(hist)].op = "push" /\ ~hist[Len(hist)].ret
    /\ head /= 0
    /\ count = Capacity

(***************************************************************************)
(* SpecTracker: one thread calls track and untrack on an AllocationTracker *)
(* that starts empty (no concurrent interleaving: each call runs to its    *)
(* end under the mutex). hist records each call, whether the table held an *)
(* entry for the tag before it, what it returned, and what find(tag)       *)
(* returns right after it.                                                 *)
(***************************************************************************)
\* some bucket holds an entry with this tag
HasEntry(tag) ==
    \E b \in Buckets : \E i \in 1..Len(buckets[b]) : buckets[b][i].tag = tag

\* the entries of the table, bucket by bucket
Entries(t) == get_snapshot(t)

EntriesOf(t, tag) == SelectSeq(get_snapshot(t), LAMBDA e : e.tag = tag)

InitT ==
    /\ InitQueue /\ InitTracker /\ InitGlobals /\ InitThreads /\ InitHistory

TTrack(tag, sz) ==
    /\ Len(hist) < MaxTrackerOps
    /\ LET info == AllocationInfo(sz, NULL)
           r == track(Tracker, tag, info)
       IN /\ SetTracker(r)
          /\ hist' = Append(hist, [op |-> "track", tag |-> tag, size |-> sz,
                                   ret |-> TRUE, absent |-> ~HasEntry(tag),
                                   after |-> find(r, tag)])
    /\ lastOp' = "track"
    /\ UNCHANGED <<queueVars, globalVars, heap, consumerVars, producerVars,
                   nNotif, gate, dropped>>

TUntrack(tag) ==
    /\ Len(hist) < MaxTrackerOps
    /\ LET r == untrack(Tracker, tag, DefaultInfo)
       IN /\ SetTracker(r.t)
          /\ hist' = Append(hist, [op |-> "untrack", tag |-> tag,
                                   size |-> r.info.size,
                                   ret |-> r.ok, absent |-> ~HasEntry(tag),
                                   after |-> find(r.t, tag)])
    /\ lastOp' = "untrack"
    /\ UNCHANGED <<queueVars, globalVars, heap, consumerVars, producerVars,
                   nNotif, gate, dropped>>

NextT ==
    \/ \E tag \in Tags, sz \in Sizes : TTrack(tag, sz)
    \/ \E tag \in Tags : TUntrack(tag)

SpecTracker == InitT /\ [][NextT]_vars

(***************************************************************************)
(* Claims about SpecTracker                                                *)
(***************************************************************************)
\* the calls of hist that name this tag, in order
CallsOn(tag) == SelectSeq(hist, LAMBDA c : c.tag = tag)

\* C2 as stated: in every reachable state the table holds at most one entry
\* per tag, and after track(id, r1), track(id, r2) with no untrack in between
\* get_snapshot holds exactly one pair for id and find(id) returns r2.
C2_AsStated ==
    /\ \A tag \in Tags : Len(EntriesOf(Tracker, tag)) <= 1
    /\ \A tag \in Tags :
         LET h == CallsOn(tag) IN
         (Len(h) >= 2 /\ h[Len(h)].op = "track" /\ h[Len(h) - 1].op = "track")
         => /\ Len(EntriesOf(Tracker, tag)) = 1
            /\ find(Tracker, tag).found
            /\ find(Tracker, tag).info.size = h[Len(h)].size

\* C6: after each call of a sequential run, current_usage is the sum of the
\* sizes of the records held in the table and alloc_count - free_count is the
\* number of records held.
SizesOf(entries) == [i \in 1..Len(entries) |-> entries[i].info.size]

C6_CounterConsistency ==
    /\ current_usage = SumSeq(SizesOf(Entries(Tracker))) % U64
    /\ (alloc_count + U64 - free_count) % U64 = Len(Entries(Tracker))

\* C6 witness: an untrack has removed a record and others are still held,
\* two of them in one chain.
C6_Witness ==
    /\ \E i \in 1..Len(hist) : hist[i].op = "untrack" /\ hist[i].ret
    /\ \E b \in Buckets : Len(buckets[b]) >= 2
    /\ current_usage > 0

\* C9: untrack(id) for a tag with no entry in the table returns false and
\* leaves the table and the five counters unchanged.
C9_MissChangesNothing ==
    [][(/\ Len(hist') = Len(hist) + 1
        /\ hist'[Len(hist')].op = "untrack"
        /\ ~HasEntry(hist'[Len(hist')].tag))
       => (~hist'[Len(hist')].ret /\ UNCHANGED trackerVars)]_vars

\* C9 witness: an untrack missed while the table held other records.
C9_Witness ==
    \E i \in 2..Len(hist) :
        /\ hist[i].op = "untrack" /\ hist[i].absent /\ ~hist[i].ret
        /\ alloc_count > 0
        /\ Len(buckets[hash_tag(hist[i].tag)]) > 0

\* C10: for a tag with no entry and any size s, track(id, s) makes find(id)
\* return a record of size s; the following untrack(id) returns true with a
\* record of size s; and find(id) afterwards returns not-found.
C10_RoundTrip ==
    \A tag \in Tags :
        LET h == CallsOn(tag) IN
        \A k \in 1..Len(h) :
            (h[k].op = "track" /\ h[k].absent) =>
                /\ h[k].after.found /\ h[k].after.info.size = h[k].size
                /\ (k < Len(h) /\ h[k + 1].op = "untrack") =>
                      /\ h[k + 1].ret
                      /\ h[k + 1].size = h[k].size
                      /\ ~h[k + 1].after.found

\* C10 witness: a round trip made in a chain that holds another tag's record.
C10_Witness ==
    \E tag \in Tags :
        LET h == CallsOn(tag) IN
        \E k \in 1..(Len(h) - 1) :
            /\ h[k].op = "track" /\ h[k].absent
            /\ h[k + 1].op = "untrack" /\ h[k + 1].ret
            /\ Len(buckets[hash_tag(tag)]) > 0

\* C16 as stated: after any sequential run of track and untrack calls on one
\* tag, the table reflects the last call made on it: after track(id, r),
\* find(id) returns r; after an untrack(id) that returned true, find(id)
\* returns not-found.
C16_AsStated ==
    \A tag \in Tags :
        LET h == CallsOn(tag) IN
        Len(h) >= 1 =>
            /\ h[Len(h)].op = "track" =>
                   /\ find(Tracker, tag).found
                   /\ find(Tracker, tag).info.size = h[Len(h)].size
            /\ (h[Len(h)].op = "untrack" /\ h[Len(h)].ret) =>
                   ~find(Tracker, tag).found

(***************************************************************************)
(* Resources: malloc'ed stack buffers and JNI global references            *)
(***************************************************************************)
\* malloc / NewGlobalRef: n new resources, none released yet. The ids are
\* Len(h) + 1 .. Len(h) + n.
Allocate(h, n) == h \o [i \in 1..n |-> 0]

\* free / DeleteGlobalRef of resource r (nothing for NULL)
Release(h, r) == IF r = NULL THEN h ELSE [h EXCEPT ![r] = Min(@ + 1, 2)]

\* the resources an event owns: its global references and its stack copy
Owned(event) == {event.klass, event.thread, event.frames} \ {NULL}

(***************************************************************************)
(* The sampling check of CallbackObjectAlloc                               *)
(***************************************************************************)
\* if (counter % g_sampling_interval.load() != 0) return;
SamplingPass_inverted(counter, interval) == counter % interval /= 0
SamplingPass_always(counter, interval) == TRUE
SamplingPass(counter, interval) == counter % interval = 0

(***************************************************************************)
(* Agent commands: a command is a C string, here the sequence of its       *)
(* characters.                                                             *)
(***************************************************************************)
Digits == <<"0", "1", "2", "3", "4", "5", "6", "7", "8", "9">>

IsDigit(c) == \E i \in 1..10 : Digits[i] = c

DigitValue(c) == (CHOOSE i \in 1..10 : Digits[i] = c) - 1

\* the value of the leading digits of str, continuing from acc
RECURSIVE AtoiDigits(_, _)
AtoiDigits(str, acc) ==
    IF str = <<>> \/ ~IsDigit(Head(str)) THEN acc
    ELSE AtoiDigits(Tail(str), 10 * acc + DigitValue(Head(str)))

\* int atoi(const char*): leading blanks, an optional sign, the digits up to
\* the first other character; 0 when there are none
RECURSIVE atoi(_)
atoi(str) ==
    IF str = <<>> THEN 0
    ELSE IF Head(str) = " " THEN atoi(Tail(str))
    ELSE IF Head(str) = "-" THEN 0 - AtoiDigits(Tail(str), 0)
    ELSE IF Head(str) = "+" THEN AtoiDigits(Tail(str), 0)
    ELSE AtoiDigits(str, 0)

\* strncmp(str, prefix, Len(prefix)) == 0
HasPrefix(str, prefix) ==
    Len(str) >= Len(prefix) /\ SubSeq(str, 1, Len(prefix)) = prefix

SamplingPrefix == <<"s", "a", "m", "p", "l", "i", "n", "g", ":">>
SnapshotCommand == <<"s", "n", "a", "p", "s", "h", "o", "t">>
StopCommand == <<"s", "t", "o", "p">>

\* the commands sent in the model
Commands ==
    {StopCommand, SnapshotCommand,
     SamplingPrefix \o <<"2">>,
     SamplingPrefix \o <<"0">>,
     SamplingPrefix \o <<"-", "3">>,
     SamplingPrefix \o <<"x">>,
     SamplingPrefix \o <<"3", "x">>,
     SamplingPrefix,
     <<"s", "t", "o", "p", " ">>,
     <<"h", "e", "l", "p">>}

(***************************************************************************)
(* Spec: the agent after Agent_OnLoad has returned JNI_OK. Each JVMTI      *)
(* callback and each control call is one step; the event processor thread  *)
(* takes one step per loop test, pop and cleanup.                          *)
(***************************************************************************)
\* Agent_OnLoad with no "sampling=<N>" option: "nosampling" was given or not,
\* GetEnv for the JNIEnv has succeeded or not, and g_event_processor_thread
\* has been started.
InitAgent ==
    /\ InitQueue /\ InitTracker /\ InitHistory
    /\ g_agent_active = TRUE
    /\ g_sampling_enabled \in BOOLEAN
    /\ g_sampling_interval = SAMPLING_INTERVAL
    /\ g_alloc_counter = 0
    /\ g_jni_env \in BOOLEAN
    /\ upc = "none"
    /\ heap = <<>>
    /\ cpc = "loop"
    /\ cev = DefaultEvent
    /\ chead = 0
    /\ ppc = <<>>
    /\ pev = <<>>
    /\ ptail = <<>>

\* CallbackObjectAlloc from the stack capture to the built event (lines
\* 473-510): captured says whether capture_stack_trace returned a buffer (it
\* frees its buffer itself when it returns nullptr). The result is the heap,
\* the tracker and the event to push.
AllocPrologue(h, t, tag, sz, captured) ==
    LET nf == IF captured THEN 1 ELSE 0
        h1 == Allocate(h, nf)
        frames == IF captured THEN Len(h) + 1 ELSE NULL
        info == AllocationInfo(sz, frames)
        h2 == Allocate(h1, 2)
        klass == Len(h1) + 1
        thread == Len(h1) + 2
        h3 == Allocate(h2, nf)
        copy == IF captured THEN Len(h2) + 1 ELSE NULL
    IN  [heap |-> h3,
         tracker |-> track(t, tag, info),
         event |-> AllocationEvent(EVENT_ALLOC, tag, sz, klass, thread, copy)]

\* void JNICALL CallbackObjectAlloc(...). g_event_callback is never set, and
\* the up-call into Java (lines 520-579) frees what it allocates and touches
\* none of the state modelled here.
CallbackObjectAlloc(tag, sz, captured) ==
    /\ nNotif' = nNotif + 1
    /\ lastOp' = "alloc"
    /\ IF ~g_agent_active
       THEN UNCHANGED <<queueVars, trackerVars, heap, g_alloc_counter, gate, dropped>>
       ELSE LET sampled == g_sampling_enabled
                counter == g_alloc_counter
                entry == [c |-> counter, n |-> g_sampling_interval]
            IN  /\ g_alloc_counter' = IF sampled THEN FetchAdd(counter, 1) ELSE counter
                /\ IF sampled /\ ~SamplingPass(counter, g_sampling_interval)
                   THEN /\ gate' = Append(gate, [c |-> counter, n |-> g_sampling_interval,
                                                 pass |-> FALSE])
                        /\ UNCHANGED <<queueVars, trackerVars, heap, dropped>>
                   ELSE LET a == AllocPrologue(heap, Tracker, tag, sz, captured)
                            r == push(Queue, a.event)
                        IN  /\ gate' = IF sampled
                                       THEN Append(gate, [c |-> counter,
                                                          n |-> g_sampling_interval,
                                                          pass |-> TRUE])
                                       ELSE gate
                            /\ SetTracker(a.tracker)
                            /\ heap' = a.heap
                            /\ SetQueue(r)
                            /\ dropped' = IF r.ok THEN dropped ELSE dropped \cup {a.event}
    /\ UNCHANGED <<g_agent_active, g_sampling_enabled, g_sampling_interval, g_jni_env, upc,
                   consumerVars, producerVars, hist>>

\* history of Spec: a record that left the table, and the call that removed it
Removed(by, info) == [op |-> "removed", by |-> by, info |-> info]

\* void JNICALL CallbackObjectFree(jvmtiEnv*, jlong tag)
CallbackObjectFree(tag) ==
    /\ nNotif' = nNotif + 1
    /\ lastOp' = "free"
    /\ IF ~g_agent_active
       THEN UNCHANGED <<queueVars, trackerVars, hist>>
       ELSE LET u == untrack(Tracker, tag, DefaultInfo) IN
            /\ SetTracker(u.t)
            /\ IF u.ok
               THEN /\ SetQueue(push(Queue, AllocationEvent(EVENT_FREE, tag, u.info.size,
                                                            NULL, NULL, NULL)))
                    /\ hist' = Append(hist, Removed("free", u.info))
               ELSE UNCHANGED <<queueVars, hist>>
    /\ UNCHANGED <<globalVars, heap, consumerVars, producerVars, gate, dropped>>

\* the body shared by the two garbage collection callbacks
GcCallback(type) ==
    IF ~g_agent_active
    THEN UNCHANGED queueVars
    ELSE SetQueue(push(Queue, AllocationEvent(type, 0, 0, NULL, NULL, NULL)))

\* void JNICALL CallbackGarbageCollectionStart(jvmtiEnv*)
CallbackGarbageCollectionStart_unchecked ==
    /\ nNotif' = nNotif + 1
    /\ lastOp' = "gcstart"
    /\ SetQueue(push(Queue, AllocationEvent(EVENT_GC_START, 0, 0, NULL, NULL, NULL)))
    /\ UNCHANGED <<trackerVars, globalVars, heap, consumerVars, producerVars, hist,
                   gate, dropped>>
CallbackGarbageCollectionStart ==
    /\ nNotif' = nNotif + 1
    /\ lastOp' = "gcstart"
    /\ GcCallback(EVENT_GC_START)
    /\ UNCHANGED <<trackerVars, globalVars, heap, consumerVars, producerVars, hist,
                   gate, dropped>>

\* void JNICALL CallbackGarbageCollectionFinish(jvmtiEnv*)
CallbackGarbageCollectionFinish ==
    /\ nNotif' = nNotif + 1
    /\ lastOp' = "gcfinish"
    /\ GcCallback(EVENT_GC_FINISH)
    /\ UNCHANGED <<trackerVars, globalVars, heap, consumerVars, producerVars, hist,
                   gate, dropped>>

\* void JNICALL CallbackVMDeath(jvmtiEnv*, JNIEnv*)
CallbackVMDeath ==
    /\ lastOp' = "vmdeath"
    /\ g_agent_active' = FALSE
    /\ UNCHANGED <<queueVars, trackerVars, g_sampling_enabled, g_sampling_interval,
                   g_alloc_counter, g_jni_env, upc, heap, consumerVars, producerVars, hist,
                   nNotif, gate, dropped>>

\* static void process_agent_command(const char* command), reached from
\* sendCommand and ExecuteCommand
process_agent_command(command) ==
    /\ lastOp' = "command"
    /\ IF HasPrefix(command, SamplingPrefix)
       THEN LET interval == atoi(SubSeq(command, Len(SamplingPrefix) + 1, Len(command)))
            IN  /\ g_sampling_interval' =
                       IF interval > 0 THEN interval ELSE g_sampling_interval
                /\ UNCHANGED g_agent_active
       ELSE IF command = SnapshotCommand
       THEN UNCHANGED <<g_sampling_interval, g_agent_active>>
       ELSE IF command = StopCommand
       THEN /\ g_agent_active' = FALSE
            /\ UNCHANGED g_sampling_interval
       ELSE UNCHANGED <<g_sampling_interval, g_agent_active>>
    /\ UNCHANGED <<queueVars, trackerVars, g_sampling_enabled, g_alloc_counter, g_jni_env,
                   upc, heap, consumerVars, producerVars, hist, nNotif, gate, dropped>>

\* Java_com_jvm_analyzer_core_NativeMemoryTracker_setSamplingInterval
setSamplingInterval_keepsEnabled(interval) ==
    /\ lastOp' = "setSamplingInterval"
    /\ IF interval > 0
       THEN /\ g_sampling_interval' = interval
            /\ g_sampling_enabled' = TRUE
       ELSE UNCHANGED <<g_sampling_enabled, g_sampling_interval>>
    /\ UNCHANGED <<queueVars, trackerVars, g_agent_active, g_alloc_counter, g_jni_env,
                   upc, heap, consumerVars, producerVars, hist, nNotif, gate, dropped>>
setSamplingInterval(interval) ==
    /\ lastOp' = "setSamplingInterval"
    /\ IF interval > 0
       THEN /\ g_sampling_interval' = interval
            /\ g_sampling_enabled' = TRUE
       ELSE /\ g_sampling_enabled' = FALSE
            /\ UNCHANGED g_sampling_interval
    /\ UNCHANGED <<queueVars, trackerVars, g_agent_active, g_alloc_counter, g_jni_env,
                   upc, heap, consumerVars, producerVars, hist, nNotif, gate, dropped>>

\* Agent_OnUnload up to the join: g_agent_active.store(false), then
\* g_event_processor_thread.join() waits for the loop to return
Agent_OnUnload ==
    /\ upc = "none"
    /\ upc' = "join"
    /\ g_agent_active' = FALSE
    /\ lastOp' = "unload"
    /\ UNCHANGED <<queueVars, trackerVars, g_sampling_enabled, g_sampling_interval,
                   g_alloc_counter, g_jni_env, heap, consumerVars, producerVars, hist,
                   nNotif, gate, dropped>>

\* Agent_OnUnload after the join: g_tracker.clear(), the notification modes
\* disabled, the globals set to nullptr
Agent_OnUnloadJoined ==
    /\ upc = "join"
    /\ cpc = "exit"
    /\ upc' = "done"
    /\ LET snapshot == get_snapshot(Tracker) IN
       /\ SetTracker(clear(Tracker))
       /\ hist' = hist \o [i \in 1..Len(snapshot) |-> Removed("clear", snapshot[i].info)]
    /\ g_jni_env' = FALSE
    /\ lastOp' = "unloaded"
    /\ UNCHANGED <<queueVars, g_agent_active, g_sampling_enabled, g_sampling_interval,
                   g_alloc_counter, heap, consumerVars, producerVars, nNotif, gate,
                   dropped>>

\* the cleanup of a popped event (lines 666-677): DeleteGlobalRef of klass and
\* thread when g_jni_env is set, free of the stack copy
Cleanup(h, event, jni_env) ==
    LET h1 == IF event.klass /= NULL /\ jni_env THEN Release(h, event.klass) ELSE h
        h2 == IF event.thread /= NULL /\ jni_env THEN Release(h1, event.thread) ELSE h1
    IN  IF event.frames /= NULL THEN Release(h2, event.frames) ELSE h2

\* event_processor_loop: while (g_agent_active.load(acquire))
LoopTest_ignoresFlag ==
    /\ cpc = "loop"
    /\ cpc' = "pop"
    /\ UNCHANGED <<queueVars, trackerVars, globalVars, heap, cev, chead, producerVars,
                   histVars>>
LoopTest ==
    /\ cpc = "loop"
    /\ cpc' = IF g_agent_active THEN "pop" ELSE "exit"
    /\ UNCHANGED <<queueVars, trackerVars, globalVars, heap, cev, chead, producerVars,
                   histVars>>

\* event_processor_loop: AllocationEvent event; if (g_event_queue.pop(event));
\* on failure sleep_for(100us) and test the flag again
LoopPop ==
    /\ cpc = "pop"
    /\ LET r == pop(Queue, DefaultEvent) IN
       /\ SetQueue(r)
       /\ cev' = r.event
       /\ cpc' = IF r.ok THEN "cleanup" ELSE "loop"
    /\ UNCHANGED <<trackerVars, globalVars, heap, chead, producerVars, histVars>>

\* event_processor_loop: the switch on event.type (prints only) and the cleanup
LoopCleanup_untracks ==
    /\ cpc = "cleanup"
    /\ heap' = Cleanup(heap, cev, g_jni_env)
    /\ cev' = DefaultEvent
    /\ cpc' = "loop"
    /\ SetTracker(IF cev.type = EVENT_FREE
                  THEN untrack(Tracker, cev.tag, DefaultInfo).t
                  ELSE Tracker)
    /\ UNCHANGED <<queueVars, globalVars, chead, producerVars, histVars>>
LoopCleanup ==
    /\ cpc = "cleanup"
    /\ heap' = Cleanup(heap, cev, g_jni_env)
    /\ cev' = DefaultEvent
    /\ cpc' = "loop"
    /\ UNCHANGED <<queueVars, trackerVars, globalVars, chead, producerVars, histVars>>

\* the commands sent in Spec: those that leave the sampling interval alone
PipelineCommands == {c \in Commands : ~HasPrefix(c, SamplingPrefix)}

\* the arguments of setSamplingInterval in the model
IntervalArgs == (0 - 1)..MaxInterval

\* The JVM delivers callbacks and the Java layer sends commands until
\* Agent_OnUnload has returned.
Next ==
    \/ /\ nNotif < MaxNotif /\ upc /= "done"
       /\ \E tag \in Objects, captured \in BOOLEAN :
              CallbackObjectAlloc(tag, ObjectSize(tag), captured)
    \/ /\ nNotif < MaxNotif /\ upc /= "done"
       /\ \E tag \in Objects : CallbackObjectFree(tag)
    \/ /\ nNotif < MaxNotif /\ upc /= "done"
       /\ CallbackGarbageCollectionStart
    \/ /\ nNotif < MaxNotif /\ upc /= "done"
       /\ CallbackGarbageCollectionFinish
    \/ /\ upc /= "done"
       /\ CallbackVMDeath
    \/ /\ upc /= "done"
       /\ \E command \in PipelineCommands : process_agent_command(command)
    \/ Agent_OnUnload
    \/ Agent_OnUnloadJoined
    \/ LoopTest
    \/ LoopPop
    \/ LoopCleanup

Spec == InitAgent /\ [][Next]_vars

(***************************************************************************)
(* Claims about Spec                                                       *)
(***************************************************************************)
ProducerCallbacks == {"alloc", "free", "gcstart", "gcfinish"}

\* C4 as stated: when events have been pushed and a stop is then issued (no
\* callback pushes once g_agent_active is false), the event processor loop pops
\* and processes all of them before it exits: it has exited only if the queue
\* is empty.
C4_AsStated == (cpc = "exit") => empty

\* C5 as stated: when push fails because the queue is full, the callback
\* releases the dropped event's stack copy and global references before it
\* returns: no resource of a dropped event stays allocated.
C5_AsStated == \A event \in dropped : \A r \in Owned(event) : heap[r] >= 1

\* C7: a producer callback (object alloc, object free, GC start, GC finish)
\* that starts after g_agent_active was set to false changes neither the
\* table, the five counters, g_alloc_counter nor the queue.
C7_NoAdmissionAfterStop ==
    [][(nNotif' = nNotif + 1 /\ ~g_agent_active)
       => UNCHANGED <<trackerVars, g_alloc_counter, queueVars>>]_vars

\* C7 witness: the last call was a callback made after the stop, at a moment
\* when the table held records and the queue held an event and had room.
C7_Witness ==
    /\ ~g_agent_active
    /\ lastOp \in ProducerCallbacks
    /\ \E tag \in Objects : HasEntry(tag)
    /\ ~empty
    /\ ~QueueFull(tail, head)

\* the records that have left the table, by a free notification or by clear()
RemovedRecords == {i \in 1..Len(hist) : hist[i].op = "removed"}

\* C17 as stated: once a tracked record has been removed, through the free
\* notification or by clear(), the call-stack buffer captured for it
\* (info.frames) has been released, and released once only.
C17_AsStated ==
    \A i \in RemovedRecords :
        hist[i].info.frames /= NULL => heap[hist[i].info.frames] = 1

(***************************************************************************)
(* SpecSampling: the sampling check under every start-up option, command   *)
(* and setSamplingInterval call. gate records, for each allocation         *)
(* notification that reached the check with sampling enabled, the counter  *)
(* value it took, the interval it read and whether it went on to track.    *)
(* The event processor thread and the other callbacks read and write none  *)
(* of g_sampling_enabled, g_sampling_interval and g_alloc_counter; here    *)
(* the thread is not scheduled and those callbacks are not delivered.      *)
(***************************************************************************)
SamplingOption == <<"s", "a", "m", "p", "l", "i", "n", "g", "=">>
NoSamplingOption == <<"n", "o", "s", "a", "m", "p", "l", "i", "n", "g">>

\* Agent_OnLoad, the body of the while loop over the options (903-910): cfg is
\* the interval and the enabled flag, opt one token of strtok(options, ",")
ParseOption_unguarded(cfg, opt) ==
    IF HasPrefix(opt, SamplingOption)
    THEN [cfg EXCEPT !.interval = atoi(SubSeq(opt, Len(SamplingOption) + 1, Len(opt)))]
    ELSE IF opt = NoSamplingOption
    THEN [cfg EXCEPT !.enabled = FALSE]
    ELSE cfg
ParseOption(cfg, opt) ==
    IF HasPrefix(opt, SamplingOption)
    THEN LET interval == atoi(SubSeq(opt, Len(SamplingOption) + 1, Len(opt)))
         IN  [cfg EXCEPT !.interval = IF interval > 0 THEN interval ELSE @]
    ELSE IF opt = NoSamplingOption
    THEN [cfg EXCEPT !.enabled = FALSE]
    ELSE cfg

\* Agent_OnLoad, lines 900-913: the tokens in order, starting from cfg
RECURSIVE ParseOptions(_, _)
ParseOptions(opts, cfg) ==
    IF opts = <<>> THEN cfg
    ELSE ParseOptions(Tail(opts), ParseOption(cfg, Head(opts)))

\* the option strings the agent is started with in the model, as their
\* tokens: "sampling=<N>" for N in 0..MaxInterval or none, then "nosampling"
\* or not
StartupOptions ==
    {pre \o post :
        pre \in {<<>>} \cup {<<SamplingOption \o <<Digits[N + 1]>>>> : N \in 0..MaxInterval},
        post \in {<<>>, <<NoSamplingOption>>}}

\* Agent_OnLoad: the options parsed over the initial values of the globals
InitSampling ==
    /\ InitQueue /\ InitTracker /\ InitHistory
    /\ g_agent_active = TRUE
    /\ \E options \in StartupOptions :
           LET cfg == ParseOptions(options, [interval |-> SAMPLING_INTERVAL,
                                            enabled |-> TRUE])
           IN  /\ g_sampling_enabled = cfg.enabled
               /\ g_sampling_interval = cfg.interval
    /\ g_alloc_counter = 0
    /\ g_jni_env = TRUE
    /\ upc = "none"
    /\ heap = <<>>
    /\ cpc = "loop"
    /\ cev = DefaultEvent
    /\ chead = 0
    /\ ppc = <<>>
    /\ pev = <<>>
    /\ ptail = <<>>

\* the allocations notified in SpecSampling: the check is made before the
\* callback looks at the object
SamplingObjects == {1}

NextSampling ==
    \/ /\ nNotif < MaxGate
       /\ \E tag \in SamplingObjects : CallbackObjectAlloc(tag, ObjectSize(tag), TRUE)
    \/ \E command \in Commands : process_agent_command(command)
    \/ \E interval \in IntervalArgs : setSamplingInterval(interval)

SpecSampling == InitSampling /\ [][NextSampling]_vars

(***************************************************************************)
(* Claims about SpecSampling                                               *)
(***************************************************************************)
\* the number of notifications i..j of gate that passed the check
RECURSIVE Passed(_, _)
Passed(i, j) ==
    IF i > j THEN 0 ELSE (IF gate[i].pass THEN 1 ELSE 0) + Passed(i + 1, j)

\* notifications i..j of gate all read the interval N
FixedInterval(i, j, N) == \A k \in i..j : gate[k].n = N

\* C8: with sampling enabled and the interval fixed at N >= 1, of any K
\* consecutive notifications that reach the check, floor(K/N) or ceil(K/N)
\* pass, and which ones pass is determined by the counter value before the
\* first of them: the k-th passes exactly if that value plus k - 1 is a
\* multiple of N.
C8_SamplingFidelity ==
    \A i \in 1..Len(gate) : \A j \in i..Len(gate) :
        LET N == gate[i].n
            K == j - i + 1
        IN  FixedInterval(i, j, N) =>
                /\ N >= 1
                /\ Passed(i, j) \in {K \div N, (K + N - 1) \div N}
                /\ \A k \in i..j : gate[k].pass <=> ((gate[i].c + (k - i)) % N = 0)

\* C8 witness: three consecutive notifications under the interval 2, taken
\* at the counter values 2, 3, 4 after a change of the interval, of which
\* ceil(3/2) = 2 passed and were tracked and one did not.
C8_Witness ==
    \E i \in 2..Len(gate) :
        /\ i + 2 <= Len(gate)
        /\ FixedInterval(i, i + 2, 2)
        /\ gate[i - 1].n /= 2
        /\ gate[i].c = 2
        /\ Passed(i, i + 2) = 2
        /\ ~gate[i + 1].pass
        /\ alloc_count >= 2

\* C11: setSamplingInterval(n) with n > 0 sets g_sampling_interval to n and
\* g_sampling_enabled to true; with n <= 0 it sets g_sampling_enabled to false
\* and leaves g_sampling_interval as it was; and while sampling is disabled
\* every allocation notification delivered to the active agent goes on to
\* track, without taking a counter value.
C11_SetSamplingInterval ==
    [][/\ \A n \in IntervalArgs :
              setSamplingInterval(n) =>
                  IF n > 0
                  THEN g_sampling_interval' = n /\ g_sampling_enabled' = TRUE
                  ELSE /\ g_sampling_enabled' = FALSE
                       /\ g_sampling_interval' = g_sampling_interval
       /\ (nNotif' = nNotif + 1 /\ g_agent_active /\ ~g_sampling_enabled)
              => /\ alloc_count' = alloc_count + 1
                 /\ gate' = gate]_vars

\* C11 witness: sampling was enabled (a notification was turned away by the
\* check), setSamplingInterval(n <= 0) then disabled it, and the notifications
\* delivered since were all tracked, the last call being one of them.
C11_Witness ==
    /\ ~g_sampling_enabled
    /\ g_agent_active
    /\ lastOp = "alloc"
    /\ Len(gate) >= 1
    /\ ~gate[Len(gate)].pass
    /\ alloc_count >= Passed(1, Len(gate)) + 2

\* an allocation notification delivered while the agent is active: it reaches
\* the sampling check
ReachesGate == nNotif' = nNotif + 1 /\ lastOp' = "alloc" /\ g_agent_active

\* C18 as stated: every allocation notification that reaches the sampling
\* check adds exactly one to g_alloc_counter, whatever the decision and
\* whether sampling is enabled or disabled.
C18_AsStated ==
    [][ReachesGate => g_alloc_counter' = FetchAdd(g_alloc_counter, 1)]_vars

\* C19: an allocation notification that reaches the sampling check goes on
\* to track (is recorded) if and only if sampling is disabled or the counter
\* value it would take is a multiple of the current interval; otherwise the
\* table and the counters of the tracker are left as they were.
C19_RecordedIff ==
    [][ReachesGate =>
           IF ~g_sampling_enabled \/ g_alloc_counter % g_sampling_interval = 0
           THEN alloc_count' = alloc_count + 1
           ELSE UNCHANGED trackerVars]_vars

\* C19 witness: notifications of all three kinds have been delivered: one
\* turned away by the check, one recorded while sampling was disabled, and
\* the last one recorded at a counter value above zero that is a multiple
\* of an interval of at least 2.
C19_Witness ==
    /\ lastOp = "alloc"
    /\ g_agent_active
    /\ g_sampling_enabled
    /\ Len(gate) >= 3
    /\ gate[Len(gate)].pass
    /\ gate[Len(gate)].c > 0
    /\ gate[Len(gate)].n >= 2
    /\ g_alloc_counter = gate[Len(gate)].c + 1
    /\ \E k \in 1..Len(gate) : ~gate[k].pass
    /\ alloc_count > Passed(1, Len(gate))

\* a string that is a positive decimal integer: digits only, at least one,
\* and a value above zero
IsPositiveInteger(str) ==
    /\ str /= <<>>
    /\ \A i \in 1..Len(str) : IsDigit(str[i])
    /\ AtoiDigits(str, 0) > 0

\* C12 as stated: a "sampling:<N>" command whose argument is malformed or not
\* a positive integer leaves g_sampling_interval, g_sampling_enabled and
\* g_agent_active unchanged; with a positive N it sets the interval to N and
\* changes neither flag; a command that is none of "sampling:", "snapshot" and
\* "stop" changes no state.
C12_AsStated ==
    [][\A command \in Commands :
           process_agent_command(command) =>
               LET arg == SubSeq(command, Len(SamplingPrefix) + 1, Len(command)) IN
               /\ HasPrefix(command, SamplingPrefix) =>
                      /\ UNCHANGED <<g_sampling_enabled, g_agent_active>>
                      /\ g_sampling_interval' =
                             IF IsPositiveInteger(arg) THEN AtoiDigits(arg, 0)
                             ELSE g_sampling_interval
               /\ (/\ ~HasPrefix(command, SamplingPrefix)
                   /\ command /= SnapshotCommand
                   /\ command /= StopCommand) =>
                      UNCHANGED <<queueVars, trackerVars, globalVars, heap>>]_vars

(***************************************************************************)
(* SpecMP: NumProducers application threads deliver allocation and GC      *)
(* start notifications while the event processor thread runs, interleaved  *)
(* at the loads and stores of EventQueue::push and pop. "nosampling" was   *)
(* given, so every allocation notification builds an event.                *)
(*                                                                         *)
(* buffer[current_tail] = event is a plain struct copy. Two producers that *)
(* loaded the same tail copy into the same slot with nothing ordering the  *)
(* copies: a data race. The copy is modelled in two halves (type, tag,     *)
(* size; then klass, thread, frames), so a slot can end up holding a mix   *)
(* of two events as well as either of them. The copy out of the slot in    *)
(* pop is modelled in the same two halves.                                 *)
(*                                                                         *)
(* hist records each push at its tail.store, with the producer and the     *)
(* event, and each pop that returned true, with the event it read.         *)
(***************************************************************************)
Producers == 1..NumProducers

InitMP ==
    /\ InitQueue /\ InitTracker /\ InitHistory
    /\ g_agent_active = TRUE
    /\ g_sampling_enabled = FALSE
    /\ g_sampling_interval = SAMPLING_INTERVAL
    /\ g_alloc_counter = 0
    /\ g_jni_env = TRUE
    /\ upc = "none"
    /\ heap = <<>>
    /\ cpc = "loop"
    /\ cev = DefaultEvent
    /\ chead = 0
    /\ ppc = [p \in Producers |-> "idle"]
    /\ pev = [p \in Producers |-> DefaultEvent]
    /\ ptail = [p \in Producers |-> 0]

\* CallbackObjectAlloc up to the first line of push: the flag and sampling
\* checks (both pass here), the capture, track, the event, and
\* current_tail = tail.load(relaxed)
MPBeginAlloc(p, tag, sz, captured) ==
    /\ ppc[p] = "idle"
    /\ g_agent_active /\ ~g_sampling_enabled
    /\ LET a == AllocPrologue(heap, Tracker, tag, sz, captured) IN
       /\ SetTracker(a.tracker)
       /\ heap' = a.heap
       /\ pev' = [pev EXCEPT ![p] = a.event]
    /\ ptail' = [ptail EXCEPT ![p] = tail]
    /\ ppc' = [ppc EXCEPT ![p] = "check"]
    /\ nNotif' = nNotif + 1
    /\ UNCHANGED <<queueVars, globalVars, consumerVars, hist, lastOp, gate, dropped>>

\* CallbackGarbageCollectionStart up to the first line of push
MPBeginGc(p) ==
    /\ ppc[p] = "idle"
    /\ g_agent_active
    /\ pev' = [pev EXCEPT ![p] = AllocationEvent(EVENT_GC_START, 0, 0, NULL, NULL, NULL)]
    /\ ptail' = [ptail EXCEPT ![p] = tail]
    /\ ppc' = [ppc EXCEPT ![p] = "check"]
    /\ nNotif' = nNotif + 1
    /\ UNCHANGED <<queueVars, trackerVars, globalVars, heap, consumerVars, hist, lastOp,
                   gate, dropped>>

\* push: if (next_tail == head.load(acquire)) return false; the callback
\* ignores the result and returns
MPCheck(p) ==
    /\ ppc[p] = "check"
    /\ IF QueueFull(ptail[p], head)
       THEN /\ ppc' = [ppc EXCEPT ![p] = "idle"]
            /\ dropped' = IF Owned(pev[p]) = {} THEN dropped ELSE dropped \cup {pev[p]}
       ELSE /\ ppc' = [ppc EXCEPT ![p] = "write"]
            /\ UNCHANGED dropped
    /\ UNCHANGED <<queueVars, trackerVars, globalVars, heap, consumerVars, pev, ptail,
                   hist, lastOp, nNotif, gate>>

\* push: buffer[current_tail] = event, first half
MPWrite(p) ==
    /\ ppc[p] = "write"
    /\ buffer' = [buffer EXCEPT ![ptail[p]] =
                     [@ EXCEPT !.type = pev[p].type, !.tag = pev[p].tag,
                               !.size = pev[p].size]]
    /\ ppc' = [ppc EXCEPT ![p] = "write2"]
    /\ UNCHANGED <<head, tail, count, trackerVars, globalVars, heap, consumerVars, pev,
                   ptail, histVars>>

\* push: buffer[current_tail] = event, second half
MPWrite2(p) ==
    /\ ppc[p] = "write2"
    /\ buffer' = [buffer EXCEPT ![ptail[p]] =
                     [@ EXCEPT !.klass = pev[p].klass, !.thread = pev[p].thread,
                               !.frames = pev[p].frames]]
    /\ ppc' = [ppc EXCEPT ![p] = "store"]
    /\ UNCHANGED <<head, tail, count, trackerVars, globalVars, heap, consumerVars, pev,
                   ptail, histVars>>

\* push: tail.store(next_tail, release)
MPStore(p) ==
    /\ ppc[p] = "store"
    /\ tail' = next_tail(ptail[p])
    /\ ppc' = [ppc EXCEPT ![p] = "count"]
    /\ hist' = Append(hist, [op |-> "push", p |-> p, event |-> pev[p]])
    /\ UNCHANGED <<buffer, head, count, trackerVars, globalVars, heap, consumerVars, pev,
                   ptail, lastOp, nNotif, gate, dropped>>

\* push: count.fetch_add(1, relaxed); return true; the callback returns
MPCount(p) ==
    /\ ppc[p] = "count"
    /\ count' = FetchAdd(count, 1)
    /\ ppc' = [ppc EXCEPT ![p] = "idle"]
    /\ UNCHANGED <<buffer, head, tail, trackerVars, globalVars, heap, consumerVars, pev,
                   ptail, histVars>>

\* event_processor_loop: the flag test, then pop up to its test:
\* current_head = head.load(relaxed); if (current_head == tail.load(acquire))
\* return false, and the loop sleeps
MCLoad ==
    /\ cpc = "loop"
    /\ g_agent_active
    /\ chead' = head
    /\ cpc' = IF QueueEmpty(head, tail) THEN "loop" ELSE "read"
    /\ UNCHANGED <<queueVars, trackerVars, globalVars, heap, cev, producerVars, histVars>>

\* pop: event = buffer[current_head], first half
MCRead ==
    /\ cpc = "read"
    /\ cev' = [cev EXCEPT !.type = buffer[chead].type, !.tag = buffer[chead].tag,
                          !.size = buffer[chead].size]
    /\ cpc' = "read2"
    /\ UNCHANGED <<queueVars, trackerVars, globalVars, heap, chead, producerVars, histVars>>

\* pop: event = buffer[current_head], second half
MCRead2 ==
    /\ cpc = "read2"
    /\ cev' = [cev EXCEPT !.klass = buffer[chead].klass, !.thread = buffer[chead].thread,
                          !.frames = buffer[chead].frames]
    /\ cpc' = "store"
    /\ UNCHANGED <<queueVars, trackerVars, globalVars, heap, chead, producerVars, histVars>>

\* pop: head.store((current_head + 1) % EVENT_QUEUE_SIZE, release)
MCStore ==
    /\ cpc = "store"
    /\ head' = (chead + 1) % EVENT_QUEUE_SIZE
    /\ cpc' = "count"
    /\ UNCHANGED <<buffer, tail, count, trackerVars, globalVars, heap, cev, chead,
                   producerVars, histVars>>

\* pop: count.fetch_sub(1, relaxed); return true
MCCount ==
    /\ cpc = "count"
    /\ count' = (count + U64 - 1) % U64
    /\ cpc' = "cleanup"
    /\ hist' = Append(hist, [op |-> "pop", p |-> 0, event |-> cev])
    /\ UNCHANGED <<buffer, head, tail, trackerVars, globalVars, heap, cev, chead,
                   producerVars, lastOp, nNotif, gate, dropped>>

\* event_processor_loop: the switch and the cleanup of the popped event
MCCleanup ==
    /\ cpc = "cleanup"
    /\ heap' = Cleanup(heap, cev, g_jni_env)
    /\ cev' = DefaultEvent
    /\ cpc' = "loop"
    /\ UNCHANGED <<queueVars, trackerVars, globalVars, chead, producerVars, histVars>>

\* the allocations notified in SpecMP
MPObjects == {1}

NextMP ==
    \/ /\ nNotif < MaxPush
       /\ \E p \in Producers, tag \in MPObjects : MPBeginAlloc(p, tag, ObjectSize(tag), TRUE)
    \/ /\ nNotif < MaxPush
       /\ \E p \in Producers : MPBeginGc(p)
    \/ \E p \in Producers : MPCheck(p)
    \/ \E p \in Producers : MPWrite(p)
    \/ \E p \in Producers : MPWrite2(p)
    \/ \E p \in Producers : MPStore(p)
    \/ \E p \in Producers : MPCount(p)
    \/ MCLoad
    \/ MCRead
    \/ MCRead2
    \/ MCStore
    \/ MCCount
    \/ MCCleanup

SpecMP == InitMP /\ [][NextMP]_vars

(***************************************************************************)
(* Claims about SpecMP                                                     *)
(***************************************************************************)
\* C3 as stated: under any interleaving of several producer threads calling
\* push and the consumer thread, the resources owned by a popped event are
\* released exactly once: no stack copy and no global reference is ever
\* released a second time.
C3_AsStated == \A r \in 1..Len(heap) : heap[r] <= 1

\* C13 as stated: when several producer threads call push concurrently, the
\* write position never moves backward and no push that returns true has had
\* its slot written by another push of the same lap: at its tail.store the
\* write position advances by one slot and the slot it claimed holds its own
\* event.
C13_AsStated ==
    [][\A p \in Producers :
           (ppc[p] = "store" /\ ppc'[p] = "count") =>
               /\ tail' = next_tail(tail)
               /\ buffer[ptail[p]] = pev[p]]_vars

\* the positions in hist of the pushes made by producer p of events that own
\* resources (each such event differs from every other event)
PushesOf(p) ==
    {i \in 1..Len(hist) :
        hist[i].op = "push" /\ hist[i].p = p /\ Owned(hist[i].event) /= {}}

\* the positions in hist of the pops
Pops == {k \in 1..Len(hist) : hist[k].op = "pop"}

\* C15 as stated: two events pushed by the same producer thread are popped in
\* the order that thread pushed them, whatever the other producers do: the
\* later one is never popped before a pop of the earlier one.
C15_AsStated ==
    \A p \in Producers : \A i \in PushesOf(p) : \A j \in PushesOf(p) :
        i < j =>
            ~\E k \in Pops : \E l \in Pops :
                /\ k < l
                /\ hist[k].event = hist[j].event
                /\ hist[l].event = hist[i].event

(***************************************************************************)
(* SpecSP: SpecMP with a single producer thread. The loads and stores of   *)
(* head and tail are acquire/release pairs (lines 110/128 and 115/123), so *)
(* what one thread wrote before its store is seen by the other after its   *)
(* load, and the interleaving of the steps gives every outcome.            *)
(***************************************************************************)
NextSP ==
    \/ /\ nNotif < MaxPushSP
       /\ \E tag \in MPObjects : MPBeginAlloc(1, tag, ObjectSize(tag), TRUE)
    \/ /\ nNotif < MaxPushSP
       /\ MPBeginGc(1)
    \/ MPCheck(1)
    \/ MPWrite(1)
    \/ MPWrite2(1)
    \/ MPStore(1)
    \/ MPCount(1)
    \/ MCLoad
    \/ MCRead
    \/ MCRead2
    \/ MCStore
    \/ MCCount
    \/ MCCleanup

SpecSP == InitMP /\ [][NextSP]_vars

\* C14: with one producer and one consumer interleaved at the loads and
\* stores of head, tail and the slots, the consumer is never copying a slot
\* out while the producer is copying an event into it, and every popped
\* event equals an event pushed before it.
C14_PoppedWasPushed ==
    /\ \A p \in Producers :
           ~(/\ cpc \in {"read", "read2"}
             /\ ppc[p] \in {"write", "write2"}
             /\ ptail[p] = chead)
    /\ \A k \in Pops :
           \E i \in 1..(k - 1) :
               hist[i].op = "push" /\ hist[i].event = hist[k].event

\* C14 witness: the producer has gone once around the ring: more pushes than
\* there are slots have returned true, each has been popped, and the last pop
\* returned an allocation event with its global references and stack copy.
C14_Witness ==
    /\ Len(hist) >= 2 * (EVENT_QUEUE_SIZE + 1)
    /\ Cardinality(Pops) >= EVENT_QUEUE_SIZE + 1
    /\ hist[Len(hist)].op = "pop"
    /\ Cardinality(Owned(hist[Len(hist)].event)) = 3

(***************************************************************************)
(* SpecTrackerMT: the threads of Producers call track and untrack while    *)
(* the counters are read without the mutex (get_current_usage), one step   *)
(* per statement. std::lock_guard holds the mutex from the first line of   *)
(* track / untrack to the return: the mutex is held by the thread that is  *)
(* at a position inside a call. hist records the values read.              *)
(***************************************************************************)
InitMT ==
    /\ InitQueue /\ InitTracker /\ InitGlobals /\ InitHistory
    /\ cpc = "idle"
    /\ cev = DefaultEvent
    /\ chead = 0
    /\ ppc = [p \in Producers |-> "idle"]
    /\ pev = [p \in Producers |-> HashEntry(0, DefaultInfo)]
    /\ ptail = [p \in Producers |-> 0]

\* std::mutex mutex is locked
MutexHeld == \E p \in Producers : ppc[p] /= "idle"

\* what a step of thread p to position pos leaves unchanged besides the tracker
MTFrame(p, pos) ==
    /\ ppc' = [ppc EXCEPT ![p] = pos]
    /\ UNCHANGED <<queueVars, globalVars, heap, consumerVars, ptail, hist, lastOp,
                   gate, dropped>>

\* track: lock_guard lock(mutex); h = hash_tag(tag); entry = new HashEntry();
\* entry->tag = tag; entry->info = info
TrackLock(p, tag, sz) ==
    /\ ppc[p] = "idle"
    /\ ~MutexHeld
    /\ pev' = [pev EXCEPT ![p] = HashEntry(tag, AllocationInfo(sz, NULL))]
    /\ nNotif' = nNotif + 1
    /\ UNCHANGED trackerVars
    /\ MTFrame(p, "t_link")

\* track: entry->next = buckets[h]; buckets[h] = entry
TrackLink(p) ==
    /\ ppc[p] = "t_link"
    /\ buckets' = [buckets EXCEPT ![hash_tag(pev[p].tag)] = Link(@, pev[p])]
    /\ UNCHANGED <<counterVars, pev, nNotif>>
    /\ MTFrame(p, "t_total")

\* track: total_allocated.fetch_add(info.size)
TrackTotal(p) ==
    /\ ppc[p] = "t_total"
    /\ total_allocated' = FetchAdd(total_allocated, pev[p].info.size)
    /\ UNCHANGED <<buckets, total_freed, current_usage, alloc_count, free_count, pev,
                   nNotif>>
    /\ MTFrame(p, "t_usage")

\* track: current_usage.fetch_add(info.size)
TrackUsage(p) ==
    /\ ppc[p] = "t_usage"
    /\ current_usage' = FetchAdd(current_usage, pev[p].info.size)
    /\ UNCHANGED <<buckets, total_allocated, total_freed, alloc_count, free_count, pev,
                   nNotif>>
    /\ MTFrame(p, "t_count")

\* track: alloc_count.fetch_add(1); the lock_guard unlocks
TrackCount(p) ==
    /\ ppc[p] = "t_count"
    /\ alloc_count' = FetchAdd(alloc_count, 1)
    /\ UNCHANGED <<buckets, total_allocated, total_freed, current_usage, free_count, pev,
                   nNotif>>
    /\ MTFrame(p, "idle")

\* untrack: lock_guard lock(mutex); h = hash_tag(tag); curr = buckets[h]
UntrackLock(p, tag) ==
    /\ ppc[p] = "idle"
    /\ ~MutexHeld
    /\ pev' = [pev EXCEPT ![p] = HashEntry(tag, DefaultInfo)]
    /\ nNotif' = nNotif + 1
    /\ UNCHANGED trackerVars
    /\ MTFrame(p, "u_search")

\* untrack: the while loop: return false (and unlock) when no entry has the
\* tag; else unlink the first that has it and info = curr->info
UntrackSearch(p) ==
    /\ ppc[p] = "u_search"
    /\ LET h == hash_tag(pev[p].tag)
           i == FirstMatch(buckets[h], pev[p].tag, 1)
       IN  IF i = 0
           THEN /\ UNCHANGED <<buckets, pev>>
                /\ MTFrame(p, "idle")
           ELSE /\ buckets' = [buckets EXCEPT ![h] = Unlink(@, i)]
                /\ pev' = [pev EXCEPT ![p] = buckets[h][i]]
                /\ MTFrame(p, "u_total")
    /\ UNCHANGED <<counterVars, nNotif>>

\* untrack: total_freed.fetch_add(info.size)
UntrackTotal(p) ==
    /\ ppc[p] = "u_total"
    /\ total_freed' = FetchAdd(total_freed, pev[p].info.size)
    /\ UNCHANGED <<buckets, total_allocated, current_usage, alloc_count, free_count, pev,
                   nNotif>>
    /\ MTFrame(p, "u_usage")

\* untrack: current_usage.fetch_sub(info.size)
UntrackUsage(p) ==
    /\ ppc[p] = "u_usage"
    /\ current_usage' = UsageAfterFree(current_usage, pev[p].info.size)
    /\ UNCHANGED <<buckets, total_allocated, total_freed, alloc_count, free_count, pev,
                   nNotif>>
    /\ MTFrame(p, "u_count")

\* untrack: free_count.fetch_add(1); delete curr; return true
UntrackCount(p) ==
    /\ ppc[p] = "u_count"
    /\ free_count' = FetchAdd(free_count, 1)
    /\ UNCHANGED <<buckets, total_allocated, total_freed, current_usage, alloc_count, pev,
                   nNotif>>
    /\ MTFrame(p, "idle")

\* uint64_t get_current_usage() const { return current_usage.load(); }
get_current_usage ==
    /\ Len(hist) < MaxReads
    /\ hist' = Append(hist, [op |-> "get_current_usage", ret |-> current_usage])
    /\ UNCHANGED <<queueVars, trackerVars, globalVars, heap, consumerVars, producerVars,
                   lastOp, nNotif, gate, dropped>>

\* the tags used in SpecTrackerMT: both hash to the same bucket
MTTags == {1, 3}

NextMT ==
    \/ /\ nNotif < MaxCalls
       /\ \E p \in Producers, tag \in MTTags, sz \in Sizes : TrackLock(p, tag, sz)
    \/ \E p \in Producers : TrackLink(p)
    \/ \E p \in Producers : TrackTotal(p)
    \/ \E p \in Producers : TrackUsage(p)
    \/ \E p \in Producers : TrackCount(p)
    \/ /\ nNotif < MaxCalls
       /\ \E p \in Producers, tag \in MTTags : UntrackLock(p, tag)
    \/ \E p \in Producers : UntrackSearch(p)
    \/ \E p \in Producers : UntrackTotal(p)
    \/ \E p \in Producers : UntrackUsage(p)
    \/ \E p \in Producers : UntrackCount(p)
    \/ get_current_usage

SpecTrackerMT == InitMT /\ [][NextMT]_vars

(***************************************************************************)
(* Claims about SpecTrackerMT                                              *)
(***************************************************************************)
\* the size of the record held by the threads at one of these positions
InHand(positions) ==
    SumSeq([p \in Producers |-> IF ppc[p] \in positions THEN pev[p].info.size ELSE 0])

\* a value of current_usage that has not wrapped below zero
NonNegative(usage) == usage < U64 \div 2

\* C20: under any interleaving of track, untrack and counter reads,
\* current_usage is decremented only for a record that was found and has
\* been unlinked already: it always equals the sizes of the records in the
\* table, less the record a running track has linked and not yet added, plus
\* the record a running untrack has unlinked and not yet subtracted. So
\* neither current_usage nor any value read from it is below zero.
C20_UsageNeverNegative ==
    /\ current_usage + InHand({"t_total", "t_usage"})
           = SumSeq(SizesOf(Entries(Tracker))) + InHand({"u_total", "u_usage"})
    /\ NonNegative(current_usage)
    /\ \A i \in 1..Len(hist) : NonNegative(hist[i].ret)

\* C20 witness: current_usage was read while an untrack had unlinked a
\* record and not yet subtracted its size, with another record in the table:
\* the value read counts both.
C20_Witness ==
    /\ \E p \in Producers : ppc[p] = "u_usage"
    /\ Len(hist) >= 1
    /\ hist[Len(hist)].ret = current_usage
    /\ Len(Entries(Tracker)) >= 1
    /\ current_usage > SumSeq(SizesOf(Entries(Tracker)))

\* no thread is inside track or untrack
TrackerIdle == ~MutexHeld

\* C21: whenever no track or untrack call is in progress, current_usage
\* equals total_allocated minus total_freed; and no step ever lowers
\* total_allocated, total_freed, alloc_count or free_count.
C21_CountersAgree ==
    /\ [](TrackerIdle =>
             current_usage = (total_allocated + U64 - total_freed) % U64)
    /\ [][/\ total_allocated' >= total_allocated
          /\ total_freed' >= total_freed
          /\ alloc_count' >= alloc_count
          /\ free_count' >= free_count]_vars

\* C21 witness: between calls, after records of both sizes were tracked by
\* different calls and one of them was untracked again.
C21_Witness ==
    /\ TrackerIdle
    /\ nNotif = MaxCalls
    /\ total_freed > 0
    /\ total_allocated > total_freed
    /\ current_usage = total_allocated - total_freed
    /\ alloc_count = 2
    /\ free_count = 1

(***************************************************************************)
(* SpecOrder: the allocation and free callbacks of the threads of          *)
(* Producers in two steps each, the tracker call and then the push, with   *)
(* the event processor thread running. "nosampling" was given. hist        *)
(* records each track, untrack and push with its result.                   *)
(***************************************************************************)
\* an entry of hist in SpecOrder
OrderCall(op, type, tag, ret) == [op |-> op, type |-> type, tag |-> tag, ret |-> ret]

\* CallbackObjectFree: if (g_tracker.untrack(tag, info)) { ... push ... }
AfterUntrack_always(ok) == "push"
AfterUntrack(ok) == IF ok THEN "push" ELSE "idle"

\* CallbackObjectAlloc from its first line to the built event (461-510): the
\* checks pass, g_tracker.track(tag, info) at 493, then the event
AllocTrack(p, tag, sz, captured) ==
    /\ ppc[p] = "idle"
    /\ g_agent_active /\ ~g_sampling_enabled
    /\ LET a == AllocPrologue(heap, Tracker, tag, sz, captured) IN
       /\ SetTracker(a.tracker)
       /\ heap' = a.heap
       /\ pev' = [pev EXCEPT ![p] = a.event]
    /\ ppc' = [ppc EXCEPT ![p] = "push"]
    /\ hist' = Append(hist, OrderCall("track", EVENT_ALLOC, tag, TRUE))
    /\ nNotif' = nNotif + 1
    /\ UNCHANGED <<queueVars, globalVars, consumerVars, ptail, lastOp, gate, dropped>>

\* CallbackObjectFree up to the test of untrack's result (615-620), and the
\* event built when it is true (621-626)
FreeUntrack(p, tag) ==
    /\ ppc[p] = "idle"
    /\ g_agent_active
    /\ LET u == untrack(Tracker, tag, DefaultInfo) IN
       /\ SetTracker(u.t)
       /\ pev' = [pev EXCEPT ![p] = AllocationEvent(EVENT_FREE, tag, u.info.size,
                                                    NULL, NULL, NULL)]
       /\ ppc' = [ppc EXCEPT ![p] = AfterUntrack(u.ok)]
       /\ hist' = Append(hist, OrderCall("untrack", EVENT_FREE, tag, u.ok))
    /\ nNotif' = nNotif + 1
    /\ UNCHANGED <<queueVars, globalVars, heap, consumerVars, ptail, lastOp, gate, dropped>>

\* g_event_queue.push(event) at line 513 or 627, its result ignored, and the
\* return of the callback
CallbackPush(p) ==
    /\ ppc[p] = "push"
    /\ LET r == push(Queue, pev[p]) IN
       /\ SetQueue(r)
       /\ hist' = Append(hist, OrderCall("push", pev[p].type, pev[p].tag, r.ok))
       /\ dropped' = IF r.ok \/ Owned(pev[p]) = {} THEN dropped
                     ELSE dropped \cup {pev[p]}
    /\ ppc' = [ppc EXCEPT ![p] = "idle"]
    /\ UNCHANGED <<trackerVars, globalVars, heap, consumerVars, pev, ptail, lastOp,
                   nNotif, gate>>

NextOrder ==
    \/ /\ nNotif < MaxOrderCalls
       /\ \E p \in Producers, tag \in Objects : AllocTrack(p, tag, ObjectSize(tag), TRUE)
    \/ /\ nNotif < MaxOrderCalls
       /\ \E p \in Producers, tag \in Objects : FreeUntrack(p, tag)
    \/ \E p \in Producers : CallbackPush(p)
    \/ LoopTest
    \/ LoopPop
    \/ LoopCleanup

SpecOrder == InitMP /\ [][NextOrder]_vars

\* the positions 1..k of hist that hold this call on this tag
CallsUpTo(k, op, type, tag) ==
    {i \in 1..k : hist[i].op = op /\ hist[i].type = type /\ hist[i].tag = tag}

\* C22: the table is changed before the matching event is enqueued: every
\* push of an Alloc event for a tag comes after a completed track of its own
\* for that tag, every push of a Free event comes after an untrack of its own
\* that returned true, and a free notification whose untrack found no entry
\* pushes nothing.
C22_LedgerFirst ==
    \A k \in 1..Len(hist) :
        hist[k].op = "push" =>
            LET tag == hist[k].tag
                pushes == CallsUpTo(k, "push", hist[k].type, tag)
                tracks == CallsUpTo(k - 1, "track", EVENT_ALLOC, tag)
                hits == {i \in CallsUpTo(k - 1, "untrack", EVENT_FREE, tag) : hist[i].ret}
            IN  /\ hist[k].type \in {EVENT_ALLOC, EVENT_FREE}
                /\ hist[k].type = EVENT_ALLOC =>
                       Cardinality(tracks) >= Cardinality(pushes)
                /\ hist[k].type = EVENT_FREE =>
                       Cardinality(hits) >= Cardinality(pushes)

\* C22 witness: a free notification missed and pushed nothing; the same
\* object was then allocated (track, push of the Alloc event) and freed
\* (untrack returns true, push of the Free event).
C22_Witness ==
    /\ Len(hist) = 5
    /\ hist[1].op = "untrack" /\ ~hist[1].ret
    /\ hist[2].op = "track" /\ hist[2].tag = hist[1].tag
    /\ hist[3].op = "push" /\ hist[3].type = EVENT_ALLOC /\ hist[3].ret
    /\ hist[4].op = "untrack" /\ hist[4].ret /\ hist[4].tag = hist[1].tag
    /\ hist[5].op = "push" /\ hist[5].type = EVENT_FREE /\ hist[5].ret

(***************************************************************************)
(* Claims about the event processor thread in Spec                         *)
(***************************************************************************)
\* a step of event_processor_loop
ConsumerStep == LoopTest \/ LoopPop \/ LoopCleanup

\* C23: a step of the event processor thread, whatever the type of the
\* event it has popped, leaves the table and the five counters of the tracker
\* unchanged: it changes nothing but head and count of the queue and the
\* release counts of the resources the popped event owns (and its own
\* position and local event).
C23_ConsumerFrame ==
    [][ConsumerStep =>
           /\ UNCHANGED <<trackerVars, buffer, tail, globalVars, producerVars, histVars>>
           /\ Len(heap') = Len(heap)
           /\ \A r \in 1..Len(heap) : heap'[r] /= heap[r] => r \in Owned(cev)]_vars

\* C23 witness: the thread has popped and cleaned up an Alloc event (its
\* resources are released) and has just popped the Free event of the same
\* object, while the table still holds another record.
C23_Witness ==
    /\ cpc = "cleanup"
    /\ cev.type = EVENT_FREE
    /\ head = 2
    /\ \E r \in 1..Len(heap) : heap[r] = 1
    /\ \E tag \in Objects : HasEntry(tag)
    /\ free_count = 1

(***************************************************************************)
(* SpecSPFair: SpecSP with the event processor thread scheduled fairly:    *)
(* the thread is a std::thread of its own whose loop never blocks (pop     *)
(* does not wait, and the sleep on an empty queue lasts 100 microseconds). *)
(* There is no stop in SpecSP: g_agent_active stays true.                  *)
(***************************************************************************)
\* a step of the event processor thread in SpecMP and SpecSP
MCStep == MCLoad \/ MCRead \/ MCRead2 \/ MCStore \/ MCCount \/ MCCleanup

SpecSPFair == SpecSP /\ WF_vars(MCStep)

\* the events pushed (at their tail.store) and popped so far, in order
PushedEvents == SelectSeq(hist, LAMBDA c : c.op = "push")
PoppedEvents == SelectSeq(hist, LAMBDA c : c.op = "pop")

\* C25: with one producer, a fairly scheduled consumer and the agent
\* active, every event whose push returned true is eventually popped, and
\* popped exactly once: the events popped are always the first of the events
\* pushed, in the same order and each once, and the n-th pushed event is
\* eventually the n-th popped.
C25_EventuallyPoppedOnce ==
    /\ [](/\ Len(PoppedEvents) <= Len(PushedEvents)
          /\ \A i \in 1..Len(PoppedEvents) :
                 PoppedEvents[i].event = PushedEvents[i].event)
    /\ \A n \in 1..MaxPushSP :
           (Len(PushedEvents) >= n) ~> (Len(PoppedEvents) >= n)

\* C25 witness: the agent is active, every callback allowed has pushed its
\* event, and the consumer has popped all of them and is back at its loop
\* test with the queue empty.
C25_Witness ==
    /\ g_agent_active
    /\ Len(PushedEvents) = MaxPushSP
    /\ Len(PoppedEvents) = MaxPushSP
    /\ cpc = "loop"
    /\ ppc[1] = "idle"
    /\ empty
    /\ count = 0

\* C26 as stated: under any interleaving of one producer and one consumer,
\* in every state, the states between a store to tail or head and the update
\* of count that follows it included, size() lies between 0 and
\* EVENT_QUEUE_SIZE - 1: count neither wraps below zero nor exceeds the
\* capacity.
C26_AsStated == size <= EVENT_QUEUE_SIZE - 1

(***************************************************************************)
(* SpecStop: the ways the agent is stopped. The actions are those of Spec, *)
(* with a single object notified and fewer notifications, so that the      *)
(* runs can be checked for what eventually happens: the event processor    *)
(* thread is scheduled fairly, and Agent_OnUnload goes on once its join    *)
(* can return. Nothing is assumed about callbacks and commands.            *)
(***************************************************************************)
NextStop ==
    \/ /\ nNotif < MaxStopNotif /\ upc /= "done"
       /\ \E tag \in MPObjects : CallbackObjectAlloc(tag, ObjectSize(tag), TRUE)
    \/ /\ nNotif < MaxStopNotif /\ upc /= "done"
       /\ \E tag \in MPObjects : CallbackObjectFree(tag)
    \/ /\ nNotif < MaxStopNotif /\ upc /= "done"
       /\ CallbackGarbageCollectionStart
    \/ /\ nNotif < MaxStopNotif /\ upc /= "done"
       /\ CallbackGarbageCollectionFinish
    \/ /\ upc /= "done"
       /\ CallbackVMDeath
    \/ /\ upc /= "done"
       /\ \E command \in PipelineCommands : process_agent_command(command)
    \/ Agent_OnUnload
    \/ Agent_OnUnloadJoined
    \/ LoopTest
    \/ LoopPop
    \/ LoopCleanup

SpecStop ==
    /\ InitAgent
    /\ [][NextStop]_vars
    /\ WF_vars(ConsumerStep)
    /\ WF_vars(Agent_OnUnloadJoined)

\* C27: once g_agent_active is false (stop command, VM death or unload) no
\* step sets it to true again; the event processor loop then leaves at its
\* next test of the flag, after finishing at most the iteration it is in, and
\* so under fair scheduling it exits and the join in Agent_OnUnload returns.
C27_StopIsFinal ==
    /\ [][~g_agent_active => ~g_agent_active']_vars
    /\ [][(~g_agent_active /\ cpc = "loop" /\ cpc' /= cpc) => cpc' = "exit"]_vars
    /\ [](cpc = "exit" => ~g_agent_active)
    /\ (~g_agent_active) ~> (cpc = "exit")
    /\ (upc = "join") ~> (upc = "done")

\* C27 witness: Agent_OnUnload has returned from its join after a stop
\* command: the loop has exited, and it did so with an event still queued.
C27_Witness ==
    /\ upc = "done"
    /\ cpc = "exit"
    /\ ~g_agent_active
    /\ ~empty
    /\ nNotif >= 2

\* C28: after any startup options, "sampling:<N>" commands and
\* setSamplingInterval calls, interleaved in any order with allocation
\* notifications, g_sampling_interval is at least 1, and so was every
\* interval the sampling check divided by.
C28_IntervalPositive ==
    /\ g_sampling_interval >= 1
    /\ \A k \in 1..Len(gate) : gate[k].n >= 1

\* C28 witness: the sampling check has divided by two different intervals,
\* neither of them the default, and sampling has since been disabled by
\* setSamplingInterval with an argument that is not positive.
C28_Witness ==
    /\ lastOp = "setSamplingInterval"
    /\ ~g_sampling_enabled
    /\ g_sampling_interval /= SAMPLING_INTERVAL
    /\ Len(gate) >= 2
    /\ gate[Len(gate)].n = g_sampling_interval
    /\ gate[1].n /= gate[Len(gate)].n
    /\ gate[1].n /= SAMPLING_INTERVAL

====
